---- MODULE Spec2Model ----
(***************************************************************************)
(* State-machine model of the two harness scripts of ExtendedDiningHall:   *)
(*   SolucaoGemini/stress_tester.py  (check_compilation, run_stress_test,  *)
(*                                    print_report, __main__)              *)
(*   trace_generator.py              (setup, generate_traces, __main__)    *)
(* One behaviour is one run of one of the two scripts (prog).  The child   *)
(* processes (make, gcc, the dining-hall binary) are the environment: what *)
(* subprocess.run returns or raises is drawn with \E.                      *)
(***************************************************************************)
EXTENDS Integers, Sequences, FiniteSets, Bags, TLC

VARIABLES
    prog,           \* which script runs: "stress" | "trace"
    pc,             \* position of the interpreter in the script
    exit_code,      \* exit status of the script, -1 while it is running
    exc,            \* uncaught exception that ended the script, "none" if none
    setup_out,      \* diagnostic printed by check_compilation / setup
    s_idx,          \* position of the `for scenario in SCENARIOS` / `for n in SCENARIOS` loop
    i,              \* `for i in range(NUM_RUNS)` loop variable (trials finished)
    success_count, fail_count, deadlocks, avg_time,
    proc,           \* the child of the pending subprocess.run call
    summary,        \* list of statistics dicts
    r_idx,          \* position of the `for item in summary` loop
    all_passed,
    verdict,        \* RESULTADO line printed by print_report, "none" before
    out,            \* per-scenario lines printed by generate_traces
    oserr,          \* history: a subprocess.run of BINARY_NAME raised OSError
    spawned,        \* history: argv[1] of every child of BINARY_NAME that was created
    durs            \* history: bag of the durations of this scenario's trials that exited with status 0

vars == << prog, pc, exit_code, exc, setup_out, s_idx, i, success_count,
           fail_count, deadlocks, avg_time, proc, summary, r_idx, all_passed,
           verdict, out, oserr, spawned, durs >>

----------------------------------------------------------------------------
(* Configuration of stress_tester.py *)

\* NUM_RUNS is 30 in the source; the model runs the same loops with fewer trials.
NUM_RUNS == 2

TIMEOUT_SECONDS == 5

SCENARIOS ==
    << [users |-> 2,  label |-> "Par (Minimal Check)"],
       [users |-> 3,  label |-> "Impar (Edge Case - Sobra 1?)"],
       [users |-> 10, label |-> "Grupo Pequeno (Concorrencia Padrao)"],
       [users |-> 50, label |-> "Carga Alta (Stress Test)"] >>

\* Wall-clock durations time.time() - start_time of a child that exits on its
\* own, in clock ticks.  time.time() differences are multiples of the clock
\* resolution, so their sums are exact.
Elapsed == {1, 3}

\* Exit statuses of a child: 0, and one representative of the nonzero ones.
ReturnCodes == {0, 1}

NoProc == [status |-> "none", returncode |-> -1, elapsed |-> 0]

----------------------------------------------------------------------------
(* Arithmetic helpers *)

RECURSIVE GCD(_, _)
GCD(a, b) == IF b = 0 THEN a ELSE GCD(b, a % b)

\* Python's true division a / b (b > 0), kept exact as a fraction in lowest terms.
TrueDiv(a, b) == LET g == GCD(a, b) IN [num |-> a \div g, den |-> b \div g]

\* The int 0 of `else 0`.
Zero == [num |-> 0, den |-> 1]

----------------------------------------------------------------------------
(* sys.exit(code) and an exception nobody catches *)

SysExit(code) ==
    /\ pc' = "exited"
    /\ exit_code' = code

\* An exception that reaches the top level: traceback, exit status 1.
Uncaught(e) ==
    /\ pc' = "exited"
    /\ exit_code' = 1
    /\ exc' = e

----------------------------------------------------------------------------
(* stress_tester.py: check_compilation *)

\* shutil.which("make")
WhichMake ==
    /\ prog = "stress" /\ pc = "which_make"
    /\ \E found \in BOOLEAN :
         IF ~found
         THEN /\ setup_out' = "make nao encontrado"
              /\ SysExit(1)
         ELSE /\ pc' = "make_clean"
              /\ UNCHANGED << exit_code, setup_out >>
    /\ UNCHANGED << prog, oserr, exc, s_idx, i, success_count, fail_count, deadlocks,
                    avg_time, proc, summary, r_idx, all_passed, verdict, out,
                    spawned, durs >>

\* subprocess.run(["make", "clean"]): the return code is ignored, an exception is
\* caught by `except Exception`.
MakeClean ==
    /\ prog = "stress" /\ pc = "make_clean"
    /\ \E r \in {"returned", "raised"} :
         IF r = "raised"
         THEN /\ setup_out' = "Excecao durante compilacao"
              /\ SysExit(1)
         ELSE /\ pc' = "make"
              /\ UNCHANGED << exit_code, setup_out >>
    /\ UNCHANGED << prog, oserr, exc, s_idx, i, success_count, fail_count, deadlocks,
                    avg_time, proc, summary, r_idx, all_passed, verdict, out,
                    spawned, durs >>

\* Variant of AfterMake that does not test result.returncode.
AfterMake_IgnoresReturnCode(r) ==
    CASE r = "raised" -> [msg |-> "Excecao durante compilacao", exit |-> TRUE]
      [] r = "nonzero" -> [msg |-> "Erro de Compilacao", exit |-> FALSE]
      [] OTHER -> [msg |-> "Compilacao bem-sucedida", exit |-> FALSE]

\* Where check_compilation goes after `result = subprocess.run(["make"])`.
AfterMake(r) ==
    CASE r = "raised" -> [msg |-> "Excecao durante compilacao", exit |-> TRUE]
      [] r = "nonzero" -> [msg |-> "Erro de Compilacao", exit |-> TRUE]
      [] OTHER -> [msg |-> "Compilacao bem-sucedida", exit |-> FALSE]

\* subprocess.run(["make"]) and the test of result.returncode; on success
\* check_compilation returns and run_stress_test starts with summary = [].
Make ==
    /\ prog = "stress" /\ pc = "make"
    /\ \E r \in {"zero", "nonzero", "raised"} :
         /\ setup_out' = AfterMake(r).msg
         /\ IF AfterMake(r).exit
            THEN /\ SysExit(1)
                 /\ UNCHANGED << summary, s_idx >>
            ELSE /\ pc' = "scenario_loop"
                 /\ summary' = << >>
                 /\ s_idx' = 1
                 /\ UNCHANGED exit_code
    /\ UNCHANGED << prog, oserr, exc, i, success_count, fail_count, deadlocks,
                    avg_time, proc, r_idx, all_passed, verdict, out,
                    spawned, durs >>

----------------------------------------------------------------------------
(* stress_tester.py: run_stress_test *)

\* Head of `for scenario in SCENARIOS` with a scenario left: the counters of the
\* scenario are set to zero.
ScenarioStart ==
    /\ prog = "stress" /\ pc = "scenario_loop"
    /\ s_idx <= Len(SCENARIOS)
    /\ success_count' = 0
    /\ fail_count' = 0
    /\ deadlocks' = 0
    /\ avg_time' = 0
    /\ i' = 0
    /\ durs' = EmptyBag
    /\ pc' = "trial_loop"
    /\ UNCHANGED << prog, oserr, exit_code, exc, setup_out, s_idx, proc, summary,
                    r_idx, all_passed, verdict, out, spawned >>

\* Variant of Spawn with a catch-all `except Exception` that counts the OSError
\* as a runtime error and goes on with the next trial.
Spawn_CountsOSError ==
    /\ prog = "stress" /\ pc = "trial_loop"
    /\ i < NUM_RUNS
    /\ \E created \in BOOLEAN :
         IF created
         THEN /\ proc' = [status |-> "running", returncode |-> -1, elapsed |-> 0]
              /\ spawned' = Append(spawned, SCENARIOS[s_idx].users)
              /\ pc' = "wait"
              /\ UNCHANGED << oserr, fail_count, i >>
         ELSE /\ oserr' = TRUE
              /\ fail_count' = fail_count + 1
              /\ i' = i + 1
              /\ UNCHANGED << pc, proc, spawned >>
    /\ UNCHANGED << prog, exit_code, exc, setup_out, s_idx, success_count,
                    deadlocks, avg_time, summary, r_idx, all_passed, verdict,
                    out, durs >>

\* Head of `for i in range(NUM_RUNS)` with a trial left: subprocess.run creates
\* the child [BINARY_NAME, str(users)], or raises OSError (file not found, not
\* executable), which no except clause of the script catches.
Spawn ==
    /\ prog = "stress" /\ pc = "trial_loop"
    /\ i < NUM_RUNS
    /\ \E created \in BOOLEAN :
         IF created
         THEN /\ proc' = [status |-> "running", returncode |-> -1, elapsed |-> 0]
              /\ spawned' = Append(spawned, SCENARIOS[s_idx].users)
              /\ pc' = "wait"
              /\ UNCHANGED << exit_code, exc, oserr >>
         ELSE /\ Uncaught("OSError(BINARY_NAME)")
              /\ oserr' = TRUE
              /\ UNCHANGED << proc, spawned >>
    /\ UNCHANGED << prog, setup_out, s_idx, i, success_count, fail_count,
                    deadlocks, avg_time, summary, r_idx, all_passed, verdict,
                    out, durs >>

\* subprocess.run blocks until the child exits on its own before the timeout,
\* or the timeout fires and the child is killed (TimeoutExpired).
Wait ==
    /\ prog = "stress" /\ pc = "wait"
    /\ proc.status = "running"
    /\ \/ \E rc \in ReturnCodes, e \in Elapsed :
            /\ e < TIMEOUT_SECONDS
            /\ proc' = [status |-> "exited", returncode |-> rc, elapsed |-> e]
       \/ proc' = [status |-> "timeout", returncode |-> -9, elapsed |-> TIMEOUT_SECONDS]
    /\ pc' = "classify"
    /\ UNCHANGED << prog, oserr, exit_code, exc, setup_out, s_idx, i, success_count,
                    fail_count, deadlocks, avg_time, summary, r_idx,
                    all_passed, verdict, out, spawned, durs >>

\* `if proc.returncode == 0: success_count += 1`
NextSuccess(p, c) ==
    IF p.status = "exited" /\ p.returncode = 0 THEN c + 1 ELSE c

\* Variant of NextAvgTime that adds the duration of every child that exited.
NextAvgTime_EveryExit(p, t) ==
    IF p.status = "exited" THEN t + p.elapsed ELSE t

\* `avg_time += (time.time() - start_time)`, in the returncode == 0 branch only
NextAvgTime(p, t) ==
    IF p.status = "exited" /\ p.returncode = 0 THEN t + p.elapsed ELSE t

\* Variant of NextFail that also counts a timeout as a runtime error.
NextFail_CountsTimeout(p, c) ==
    IF p.status = "exited" /\ p.returncode = 0 THEN c ELSE c + 1

\* `else: fail_count += 1`
NextFail(p, c) ==
    IF p.status = "exited" /\ p.returncode # 0 THEN c + 1 ELSE c

\* Variant of NextDeadlocks that swallows TimeoutExpired without counting it.
NextDeadlocks_NotCounted(p, c) == c

\* `except subprocess.TimeoutExpired: deadlocks += 1`
NextDeadlocks(p, c) ==
    IF p.status = "timeout" THEN c + 1 ELSE c

\* Variant of NextI that leaves the trial loop at the first trial that fails.
NextI_BreakOnFailure(p, n) ==
    IF p.status = "exited" /\ p.returncode = 0 THEN n + 1 ELSE NUM_RUNS

\* The body of the trial loop after subprocess.run has returned or raised
\* TimeoutExpired; the loop then goes on with the next i.
NextI(p, n) == n + 1

Classify ==
    /\ prog = "stress" /\ pc = "classify"
    /\ success_count' = NextSuccess(proc, success_count)
    /\ avg_time' = NextAvgTime(proc, avg_time)
    /\ fail_count' = NextFail(proc, fail_count)
    /\ deadlocks' = NextDeadlocks(proc, deadlocks)
    /\ durs' = IF proc.status = "exited" /\ proc.returncode = 0
               THEN durs (+) SetToBag({proc.elapsed})
               ELSE durs
    /\ i' = NextI(proc, i)
    /\ proc' = NoProc
    /\ pc' = "trial_loop"
    /\ UNCHANGED << prog, oserr, exit_code, exc, setup_out, s_idx, summary, r_idx,
                    all_passed, verdict, out, spawned >>

\* `final_avg = (avg_time / success_count) if success_count > 0 else 0`
FinalAvg(t, c) == IF c > 0 THEN TrueDiv(t, c) ELSE Zero

\* Variant of AppendStats that inserts at the front.
AppendStats_AtFront(s, entry) == << entry >> \o s

\* `summary.append({...})`
AppendStats(s, entry) == Append(s, entry)

\* The trial loop is exhausted: the statistics of the scenario are appended and
\* the scenario loop goes on.
Stats ==
    /\ prog = "stress" /\ pc = "trial_loop"
    /\ ~(i < NUM_RUNS)
    /\ summary' = AppendStats(summary,
                      [users |-> SCENARIOS[s_idx].users,
                       success |-> success_count,
                       fails |-> fail_count,
                       deadlocks |-> deadlocks,
                       avg_time |-> FinalAvg(avg_time, success_count)])
    /\ s_idx' = s_idx + 1
    /\ pc' = "scenario_loop"
    /\ UNCHANGED << prog, oserr, exit_code, exc, setup_out, i, success_count,
                    fail_count, deadlocks, avg_time, proc, r_idx, all_passed,
                    verdict, out, spawned, durs >>

\* The scenario loop is exhausted: `return summary`, and __main__ calls
\* print_report(results), which starts with all_passed = True.
Return ==
    /\ prog = "stress" /\ pc = "scenario_loop"
    /\ s_idx > Len(SCENARIOS)
    /\ all_passed' = TRUE
    /\ r_idx' = 1
    /\ pc' = "report_loop"
    /\ UNCHANGED << prog, oserr, exit_code, exc, setup_out, s_idx, i, success_count,
                    fail_count, deadlocks, avg_time, proc, summary, verdict,
                    out, spawned, durs >>

----------------------------------------------------------------------------
(* stress_tester.py: print_report *)

\* Variant of AllPassedAfter that looks at the deadlocks only.
AllPassedAfter_DeadlocksOnly(ap, item) ==
    IF item.deadlocks > 0 THEN FALSE ELSE ap

\* `if item['deadlocks'] > 0 or item['fails'] > 0: all_passed = False`
AllPassedAfter(ap, item) ==
    IF item.deadlocks > 0 \/ item.fails > 0 THEN FALSE ELSE ap

ReportItem ==
    /\ prog = "stress" /\ pc = "report_loop"
    /\ r_idx <= Len(summary)
    /\ all_passed' = AllPassedAfter(all_passed, summary[r_idx])
    /\ r_idx' = r_idx + 1
    /\ UNCHANGED << prog, oserr, pc, exit_code, exc, setup_out, s_idx, i,
                    success_count, fail_count, deadlocks, avg_time, proc,
                    summary, verdict, out, spawned, durs >>

\* `if all_passed: ... sys.exit(0)  else: ... sys.exit(1)`
ExitStatus(ap) == IF ap THEN 0 ELSE 1

Verdict ==
    /\ prog = "stress" /\ pc = "report_loop"
    /\ r_idx > Len(summary)
    /\ verdict' = IF all_passed THEN "APROVADO" ELSE "REPROVADO"
    /\ SysExit(ExitStatus(all_passed))
    /\ UNCHANGED << prog, oserr, exc, setup_out, s_idx, i, success_count, fail_count,
                    deadlocks, avg_time, proc, summary, r_idx, all_passed,
                    out, spawned, durs >>

----------------------------------------------------------------------------
(* Configuration of trace_generator.py *)

\* SCENARIOS of trace_generator.py
TRACE_SCENARIOS == << 2, 3, 10 >>

\* `timeout=10` of the subprocess.run call of generate_traces
TRACE_TIMEOUT == 10

----------------------------------------------------------------------------
(* trace_generator.py: setup *)

\* `if not os.path.exists(OUTPUT_DIR): os.makedirs(OUTPUT_DIR)`; makedirs may
\* raise OSError, which nothing catches.
SetupDir ==
    /\ prog = "trace" /\ pc = "setup_dir"
    /\ \E r \in {"exists", "created", "raised"} :
         IF r = "raised"
         THEN Uncaught("OSError(makedirs)")
         ELSE /\ pc' = "setup_gcc"
              /\ UNCHANGED << exit_code, exc >>
    /\ UNCHANGED << prog, oserr, setup_out, s_idx, i, success_count, fail_count,
                    deadlocks, avg_time, proc, summary, r_idx, all_passed,
                    verdict, out, spawned, durs >>

\* `res = subprocess.run(cmd)` of gcc and the test of res.returncode; on success
\* setup returns and generate_traces starts.
SetupCompile ==
    /\ prog = "trace" /\ pc = "setup_gcc"
    /\ \E r \in {"zero", "nonzero", "raised"} :
         CASE r = "raised" ->
                /\ Uncaught("OSError(gcc)")
                /\ UNCHANGED << setup_out, s_idx >>
           [] r = "nonzero" ->
                /\ setup_out' = "Erro de compilacao"
                /\ SysExit(1)
                /\ UNCHANGED << exc, s_idx >>
           [] OTHER ->
                /\ setup_out' = "compilado"
                /\ pc' = "trace_loop"
                /\ s_idx' = 1
                /\ UNCHANGED << exit_code, exc >>
    /\ UNCHANGED << prog, oserr, i, success_count, fail_count, deadlocks, avg_time,
                    proc, summary, r_idx, all_passed, verdict, out, spawned,
                    durs >>

----------------------------------------------------------------------------
(* trace_generator.py: generate_traces *)

\* Head of `for n in SCENARIOS` with a scenario left: the "Rodando cenario" line
\* is printed and subprocess.run creates the child [BINARY_NAME, str(n)], or
\* raises OSError, which neither except clause catches.
TraceSpawn ==
    /\ prog = "trace" /\ pc = "trace_loop"
    /\ s_idx <= Len(TRACE_SCENARIOS)
    /\ out' = Append(out, [n |-> TRACE_SCENARIOS[s_idx], msg |-> "Rodando cenario"])
    /\ \E created \in BOOLEAN :
         IF created
         THEN /\ proc' = [status |-> "running", returncode |-> -1, elapsed |-> 0]
              /\ spawned' = Append(spawned, TRACE_SCENARIOS[s_idx])
              /\ pc' = "trace_wait"
              /\ UNCHANGED << exit_code, exc, oserr >>
         ELSE /\ Uncaught("OSError(BINARY_NAME)")
              /\ oserr' = TRUE
              /\ UNCHANGED << proc, spawned >>
    /\ UNCHANGED << prog, setup_out, s_idx, i, success_count, fail_count,
                    deadlocks, avg_time, summary, r_idx, all_passed, verdict,
                    durs >>

\* subprocess.run blocks until the child exits or the timeout fires.
TraceWait ==
    /\ prog = "trace" /\ pc = "trace_wait"
    /\ proc.status = "running"
    /\ \/ \E rc \in ReturnCodes :
            proc' = [status |-> "exited", returncode |-> rc, elapsed |-> 1]
       \/ proc' = [status |-> "timeout", returncode |-> -9, elapsed |-> TRACE_TIMEOUT]
    /\ pc' = "trace_handle"
    /\ UNCHANGED << prog, oserr, exit_code, exc, setup_out, s_idx, i, success_count,
                    fail_count, deadlocks, avg_time, summary, r_idx,
                    all_passed, verdict, out, spawned, durs >>

\* What subprocess.run(..., check=True) does once the child is gone: it returns
\* (status 0), raises CalledProcessError (nonzero status) or TimeoutExpired.
\* The except clauses print one line each.
TracePrinted(p) ==
    CASE p.status = "timeout" -> << "Timeout (Deadlock?)" >>
      [] p.status = "exited" /\ p.returncode # 0 -> << "Erro de execucao" >>
      [] OTHER -> << >>

\* Variant of AfterTry whose TimeoutExpired handler ends the script with status 1.
AfterTry_ExitOnTimeout(p, idx) ==
    IF p.status = "timeout"
    THEN [pc |-> "exited", s_idx |-> idx, exit_code |-> 1]
    ELSE [pc |-> "trace_loop", s_idx |-> idx + 1, exit_code |-> -1]

\* Variant of AfterTry whose handlers leave the for loop.
AfterTry_BreakOnFailure(p, idx) ==
    IF p.status = "exited" /\ p.returncode = 0
    THEN [pc |-> "trace_loop", s_idx |-> idx + 1, exit_code |-> -1]
    ELSE [pc |-> "trace_loop", s_idx |-> Len(TRACE_SCENARIOS) + 1, exit_code |-> -1]

\* Where generate_traces goes after the try statement: in every case to the
\* next n of the for loop.
AfterTry(p, idx) == [pc |-> "trace_loop", s_idx |-> idx + 1, exit_code |-> -1]

TraceHandle ==
    /\ prog = "trace" /\ pc = "trace_handle"
    /\ out' = out \o [k \in 1..Len(TracePrinted(proc)) |->
                         [n |-> TRACE_SCENARIOS[s_idx], msg |-> TracePrinted(proc)[k]]]
    /\ pc' = AfterTry(proc, s_idx).pc
    /\ s_idx' = AfterTry(proc, s_idx).s_idx
    /\ exit_code' = AfterTry(proc, s_idx).exit_code
    /\ proc' = NoProc
    /\ UNCHANGED << prog, oserr, exc, setup_out, i, success_count, fail_count,
                    deadlocks, avg_time, summary, r_idx, all_passed, verdict,
                    spawned, durs >>

\* The for loop is exhausted: the closing line is printed, generate_traces
\* returns and the script ends (exit status 0).
TraceDone ==
    /\ prog = "trace" /\ pc = "trace_loop"
    /\ s_idx > Len(TRACE_SCENARIOS)
    /\ verdict' = "Geracao de logs concluida"
    /\ SysExit(0)
    /\ UNCHANGED << prog, oserr, exc, setup_out, s_idx, i, success_count, fail_count,
                    deadlocks, avg_time, proc, summary, r_idx, all_passed,
                    out, spawned, durs >>

----------------------------------------------------------------------------
Init ==
    /\ prog \in {"stress", "trace"}
    /\ pc = IF prog = "stress" THEN "which_make" ELSE "setup_dir"
    /\ exit_code = -1
    /\ exc = "none"
    /\ setup_out = "none"
    /\ s_idx = 0
    /\ i = 0
    /\ success_count = 0 /\ fail_count = 0 /\ deadlocks = 0 /\ avg_time = 0
    /\ proc = NoProc
    /\ summary = << >>
    /\ r_idx = 0
    /\ all_passed = TRUE
    /\ verdict = "none"
    /\ out = << >>
    /\ oserr = FALSE
    /\ spawned = << >>
    /\ durs = EmptyBag

Next ==
    \/ WhichMake
    \/ MakeClean
    \/ Make
    \/ ScenarioStart
    \/ Spawn
    \/ Wait
    \/ Classify
    \/ Stats
    \/ Return
    \/ ReportItem
    \/ Verdict
    \/ SetupDir
    \/ SetupCompile
    \/ TraceSpawn
    \/ TraceWait
    \/ TraceHandle
    \/ TraceDone

Spec == Init /\ [][Next]_vars

----------------------------------------------------------------------------
(* Properties *)

IsPrefix(a, b) ==
    /\ Len(a) <= Len(b)
    /\ \A k \in 1..Len(a) : a[k] = b[k]

RECURSIVE SumOver(_, _)
SumOver(S, B) ==
    IF S = {} THEN 0
    ELSE LET d == CHOOSE x \in S : TRUE
         IN  d * CopiesIn(d, B) + SumOver(S \ {d}, B)

\* Sum of the elements of a bag of numbers.
BagSum(B) == SumOver(BagToSet(B), B)

\* A statistics entry without deadlock and without runtime error.
Clean(item) == item.deadlocks = 0 /\ item.fails = 0

AllClean == \A k \in 1..Len(summary) : Clean(summary[k])

\* The children run_stress_test creates when nothing aborts it: NUM_RUNS per
\* scenario, scenario after scenario.
ExpectedSpawns ==
    [k \in 1..(Len(SCENARIOS) * NUM_RUNS) |->
        SCENARIOS[((k - 1) \div NUM_RUNS) + 1].users]

StressSetupFailed ==
    setup_out \in {"make nao encontrado", "Excecao durante compilacao",
                   "Erro de Compilacao"}

\* C1: once print_report has printed its verdict, all_passed is true exactly
\* when every summary entry has deadlocks = 0 and fails = 0, and the script has
\* exited with status 0 if all_passed and with status 1 otherwise.
C1_VerdictIffAllClean ==
    (prog = "stress" /\ verdict # "none") =>
        /\ all_passed <=> AllClean
        /\ pc = "exited"
        /\ exit_code = (IF AllClean THEN 0 ELSE 1)
        /\ verdict = (IF AllClean THEN "APROVADO" ELSE "REPROVADO")

\* One deadlock in one scenario, every other trial of the run a success: exit 1.
C1_Witness ==
    /\ prog = "stress" /\ pc = "exited" /\ exit_code = 1
    /\ verdict = "REPROVADO"
    /\ Len(summary) = Len(SCENARIOS)
    /\ \E k \in 1..Len(summary) :
         /\ summary[k].deadlocks = 1 /\ summary[k].fails = 0
         /\ \A j \in (1..Len(summary)) \ {k} : summary[j].success = NUM_RUNS

\* C2: every entry of summary has success + fails + deadlocks = NUM_RUNS.
C2_CountsSumToNumRuns ==
    prog = "stress" =>
        \A k \in 1..Len(summary) :
            summary[k].success + summary[k].fails + summary[k].deadlocks = NUM_RUNS

\* A scenario with a deadlock and a runtime error is followed by an entry
\* that counts successes only.
C2_Witness ==
    /\ prog = "stress"
    /\ Len(summary) >= 2
    /\ summary[1].deadlocks > 0 /\ summary[1].fails > 0
    /\ summary[2].success = NUM_RUNS

\* C3: the step that classifies a trial is taken only when the child has exited
\* or the timeout has fired, and it adds one to exactly one counter: success
\* for exit status 0, fails for a nonzero status, deadlocks for a timeout; no
\* other step of a scenario's trial loop changes a counter.
C3_ExactlyOneCounter ==
    [][ prog = "stress" =>
          /\ pc = "classify" =>
               /\ proc.status \in {"exited", "timeout"}
               /\ (proc.status = "exited" /\ proc.returncode = 0) =>
                    << success_count', fail_count', deadlocks' >>
                        = << success_count + 1, fail_count, deadlocks >>
               /\ (proc.status = "exited" /\ proc.returncode # 0) =>
                    << success_count', fail_count', deadlocks' >>
                        = << success_count, fail_count + 1, deadlocks >>
               /\ proc.status = "timeout" =>
                    << success_count', fail_count', deadlocks' >>
                        = << success_count, fail_count, deadlocks + 1 >>
               /\ i' = i + 1
          /\ pc \in {"trial_loop", "wait"} =>
               /\ UNCHANGED << success_count, fail_count, deadlocks >>
               /\ (pc' = "trial_loop" => i' = i)
          /\ success_count + fail_count + deadlocks = i
      ]_vars

\* A scenario whose trials were classified as one success and one deadlock.
C3_Witness ==
    /\ prog = "stress" /\ pc = "trial_loop"
    /\ i = NUM_RUNS
    /\ success_count = 1 /\ deadlocks = 1 /\ fail_count = 0

\* C4: the children are created in the order scenario by scenario, NUM_RUNS per
\* scenario; print_report runs, and a verdict is printed, only after all
\* Len(SCENARIOS) * NUM_RUNS of them; a run that compiled and was not ended by
\* an exception has created them all, whatever the trials' outcomes.
C4_AllTrialsRun ==
    prog = "stress" =>
        /\ IsPrefix(spawned, ExpectedSpawns)
        /\ (pc = "report_loop" \/ verdict # "none") => spawned = ExpectedSpawns
        /\ (pc = "exited" /\ ~StressSetupFailed /\ exc = "none") =>
               /\ spawned = ExpectedSpawns
               /\ verdict # "none"

\* The first scenario had a deadlock and a runtime error and the run went on
\* to the last trial of the last scenario.
C4_Witness ==
    /\ prog = "stress" /\ verdict = "REPROVADO"
    /\ summary[1].deadlocks > 0 /\ summary[1].fails > 0
    /\ Len(spawned) = Len(SCENARIOS) * NUM_RUNS

\* C5: after a setup failure of the stress tester (make not found, make or make
\* clean raising, make returning nonzero) the script has exited with status 1
\* and no child of BINARY_NAME was ever created; children are created only
\* after a successful compilation.
C5_SetupFailureIsFatal ==
    prog = "stress" =>
        /\ StressSetupFailed =>
             /\ pc = "exited" /\ exit_code = 1
             /\ spawned = << >> /\ proc = NoProc /\ ~oserr
        /\ (spawned # << >> \/ oserr \/ pc \in {"scenario_loop", "trial_loop"})
             => setup_out = "Compilacao bem-sucedida"

\* make returned a nonzero status.
C5_Witness ==
    /\ prog = "stress" /\ setup_out = "Erro de Compilacao"
    /\ pc = "exited" /\ exit_code = 1

\* C6: when a subprocess.run of BINARY_NAME raises OSError, the script has ended
\* with a nonzero status and takes no further step; the failed attempt is in
\* no counter and no report line, no statistics entry exists for the scenario,
\* print_report has not run and no verdict or closing line was printed.
C6_SpawnErrorAborts ==
    oserr =>
        /\ pc = "exited" /\ exit_code = 1 /\ exc = "OSError(BINARY_NAME)"
        /\ verdict = "none"
        /\ ~ENABLED Next
        /\ prog = "stress" =>
             /\ success_count + fail_count + deadlocks = i
             /\ Len(spawned) = (s_idx - 1) * NUM_RUNS + i
             /\ Len(summary) = s_idx - 1
             /\ r_idx = 0
        /\ prog = "trace" =>
             /\ Len(spawned) = s_idx - 1
             /\ out[Len(out)] = [n |-> TRACE_SCENARIOS[s_idx], msg |-> "Rodando cenario"]

\* The binary could not be executed in the second trial of the second scenario.
C6_Witness ==
    /\ oserr /\ prog = "stress"
    /\ s_idx = 2 /\ i = 1 /\ Len(summary) = 1

\* C7 as stated: the trace-capture script always exits with status 0.
C7_AlwaysExitsZero ==
    (prog = "trace" /\ pc = "exited") => exit_code = 0

\* C7 amended: the trace-capture script exits with status 0 exactly when gcc
\* compiled the target and no subprocess.run raised OSError, whatever the
\* scenarios' outcomes (timeout, nonzero exit) were; otherwise with status 1.
C7_ExitsZeroUnlessSetupOrSpawnFails ==
    (prog = "trace" /\ pc = "exited") =>
        /\ exit_code \in {0, 1}
        /\ exit_code = 0 <=> (setup_out = "compilado" /\ exc = "none")
        /\ exc = "none" => ~oserr

\* Exit status 0 after a run in which a scenario timed out and another one
\* exited with a nonzero status.
C7_Witness ==
    /\ prog = "trace" /\ pc = "exited" /\ exit_code = 0
    /\ \E k \in 1..Len(out) : out[k].msg = "Timeout (Deadlock?)"
    /\ \E k \in 1..Len(out) : out[k].msg = "Erro de execucao"

\* C8: generate_traces creates the children in the order of its scenario list,
\* one per scenario; when it has ended without OSError (and gcc compiled), one
\* child was created for every scenario of the list, whatever the outcomes.
C8_EveryScenarioOnce ==
    prog = "trace" =>
        /\ IsPrefix(spawned, TRACE_SCENARIOS)
        /\ verdict # "none" => spawned = TRACE_SCENARIOS
        /\ (pc = "exited" /\ setup_out = "compilado" /\ ~oserr)
               => (spawned = TRACE_SCENARIOS /\ verdict # "none")
        /\ pc \in {"trace_wait", "trace_handle"} => Len(spawned) = s_idx

\* The first scenario timed out, the second exited nonzero, the third ran.
C8_Witness ==
    /\ prog = "trace" /\ pc = "exited"
    /\ spawned = TRACE_SCENARIOS
    /\ \E k \in 1..Len(out) :
         out[k] = [n |-> TRACE_SCENARIOS[1], msg |-> "Timeout (Deadlock?)"]
    /\ \E k \in 1..Len(out) :
         out[k] = [n |-> TRACE_SCENARIOS[2], msg |-> "Erro de execucao"]

\* C9: summary holds the entries of the scenarios in the order of SCENARIOS, at
\* most one per scenario, and exactly one per scenario once run_stress_test
\* has returned.
C9_SummaryInDeclaredOrder ==
    prog = "stress" =>
        /\ Len(summary) <= Len(SCENARIOS)
        /\ \A k \in 1..Len(summary) : summary[k].users = SCENARIOS[k].users
        /\ (pc = "report_loop" \/ verdict # "none") => Len(summary) = Len(SCENARIOS)

\* run_stress_test has returned; the first scenario deadlocked in every trial
\* and the last one succeeded in every trial.
C9_Witness ==
    /\ prog = "stress" /\ pc = "report_loop" /\ r_idx = 1
    /\ summary[1].deadlocks = NUM_RUNS
    /\ summary[Len(SCENARIOS)].success = NUM_RUNS

\* C10: in the entry just appended, avg_time is 0 when success is 0; otherwise
\* avg_time * success is the sum of the durations of the trials that exited
\* with status 0, and avg_time lies between the smallest and the largest of
\* these durations.
C10_AverageOfSuccesses ==
    (prog = "stress" /\ pc = "scenario_loop" /\ Len(summary) >= 1) =>
        LET e == summary[Len(summary)]
            D == BagToSet(durs)
        IN  /\ e.success = BagCardinality(durs)
            /\ e.success = 0 => e.avg_time = Zero
            /\ e.success > 0 =>
                 /\ e.avg_time.den > 0
                 /\ e.avg_time.num * e.success = BagSum(durs) * e.avg_time.den
                 /\ \E lo \in D : /\ \A d \in D : lo <= d
                                  /\ lo * e.avg_time.den <= e.avg_time.num
                 /\ \E hi \in D : /\ \A d \in D : d <= hi
                                  /\ e.avg_time.num <= hi * e.avg_time.den

\* Two successes of different durations: the average lies strictly between.
C10_Witness ==
    /\ prog = "stress" /\ pc = "scenario_loop" /\ Len(summary) >= 1
    /\ summary[Len(summary)].success = 2
    /\ Cardinality(BagToSet(durs)) = 2
    /\ summary[Len(summary)].avg_time = [num |-> 2, den |-> 1]

====
